---- MODULE Spec2Model ----
(***************************************************************************)
(* knnlm-locality: the evaluation driver (fairseq_cli/eval_lm.py) and the  *)
(* sequence scorer (fairseq/sequence_scorer.py).                           *)
(*                                                                         *)
(* Three specifications share the module:                                  *)
(*   SpecSoftmax   SequenceScorer.__init__ and the batch_for_softmax       *)
(*                 generator of SequenceScorer.generate                    *)
(*   SpecWordStat  the WordStat accumulator                                *)
(*   Spec          main(): configuration checks, the batch loop, the       *)
(*                 datastore writer, the accumulators and finalization     *)
(* Each specification leaves the variables of the other two at their idle  *)
(* values.                                                                 *)
(***************************************************************************)
EXTENDS Integers, Sequences, FiniteSets, TLC

\* ------------------------------------------------------------------ bounds
\* largest batch size (bsz) of a decoder output
MaxBsz == 2
\* largest number of time steps (tsz) of a decoder output
MaxTsz == 3
\* largest configured softmax_batch
MaxSoftmaxBatch == 4
\* target token ids of the splitter's inputs
TokenIds == {1, 2}
\* sys.maxsize, at the width of TLC's integers
sys_maxsize == 2147483647
\* largest number of WordStat.add calls on one object
MaxAdds == 3
\* largest number of batches the iterator yields
MaxBatches == 2
\* largest number of sequences (hypotheses) in one batch
MaxHypos == 2
\* largest number of sequences in the dataset
MaxSamples == 3
\* largest number of reference tokens of one sequence
MaxTokens == 2
\* largest number of padding positions after a sequence's reference
MaxPad == 1
\* largest args.dstore_size
MaxDstoreSize == 2
\* largest ensemble
MaxModels == 2
\* positional scores (log-probabilities) the scorer returns for a token
Scores == {-1}
\* log-probabilities passed to WordStat.add
LogProbs == {-2, -1}
\* largest number of time steps of a batch passed to SequenceScorer.generate
MaxGenTsz == 2

VARIABLES
    \* SequenceScorer / batch_for_softmax
    arg_softmax_batch,  \* the softmax_batch argument of __init__ (0: None)
    softmax_batch,      \* self.softmax_batch
    dec_out,            \* <<first, rest>>: first[b][t] is the logit vector at (b, t)
    target,             \* target[b][t]
    flat,               \* first viewed as (1, bsz*tsz, dim)
    flat_tgt,           \* target viewed as (1, bsz*tsz)
    s,                  \* the generator's slice start
    batched,            \* the triples yielded so far
    gen_pc,             \* "off" | "start" | "loop" | "done"
    \* WordStat
    ws,                 \* one WordStat object
    ws_calls,           \* the arguments of the add calls made on it, in order
    ws_str,             \* the last line __str__ returned (<<>>: none yet)
    \* main
    args,               \* the parsed arguments main() reads
    models,             \* len(models)
    pc,                 \* "off" | "init" | "iterating" | "hypos" | "finalizing" | "done" | "raised"
    exc,                \* the exception that ended the run ("none": none)
    ex_i,               \* batches taken from the iterator
    sample,             \* the batch last taken: whether it has net_input, its size
    hypos,              \* hypotheses of the current batch not yet processed
    next_id,            \* sample id of the next hypothesis
    knn_dstore,         \* whether KNN_Dstore(args) has been constructed
    knn_queries,        \* calls of dstore.get_knn_log_prob
    forward_passes,     \* calls of model(**net_input)
    dstore_keys,        \* the key memmap: per row, the sample id written (0: none)
    dstore_vals,        \* the value memmap, likewise
    dstore_idx,         \* the write cursor
    dstore_token_sample_map,
    overflow_reported,  \* "ERROR! dstore_size exceeded!" has been printed
    score_sum,
    count,
    word_stats,         \* word -> WordStat
    prediction_save,    \* sample ids whose topk/ref have been appended
    saved,              \* artifacts persisted
    \* SequenceScorer.generate
    call_sample,        \* the sample as the caller passed it
    gen_sample,         \* the sample dict generate works on (the same object)
    orig_target,        \* orig_target (<<>>: not yet assigned)
    n_models,           \* len(models)
    model_k,            \* 1-based position of the loop over models
    kwargs_knn,         \* 'knn_dstore' in kwargs
    consumed,           \* triples of batched the for loop has finished
    norm_samples,       \* the sample seen by each get_normalized_probs call
    sc_pc               \* "off" | "enter" | "model" | "for" | "normalize" |
                        \* "restore" | "returned" | "raised"

softmaxVars == <<arg_softmax_batch, softmax_batch, dec_out, target, flat,
                 flat_tgt, s, batched, gen_pc>>

wordStatVars == <<ws, ws_calls, ws_str>>

mainVars == <<args, models, pc, exc, ex_i, sample, hypos, next_id, knn_dstore,
              knn_queries, forward_passes, dstore_keys, dstore_vals,
              dstore_idx, dstore_token_sample_map, overflow_reported,
              score_sum, count, word_stats, prediction_save, saved>>

generateVars == <<call_sample, gen_sample, orig_target, n_models, model_k,
                  kwargs_knn, consumed, norm_samples, sc_pc>>

vars == <<softmaxVars, wordStatVars, mainVars, generateVars>>

Min(a, b) == IF a < b THEN a ELSE b
Max(a, b) == IF a > b THEN a ELSE b

\* ------------------------------------------------- SequenceScorer.__init__
\* self.softmax_batch = softmax_batch or sys.maxsize
ScorerSoftmaxBatch(sb) == IF sb = 0 THEN sys_maxsize ELSE sb

\* ------------------------------------------------------ tensor primitives
\* seq[lo:hi] for 0 <= lo, 0 <= hi (Python slicing clips at the length)
PySlice(seq, lo, hi) == SubSeq(seq, lo + 1, Min(hi, Len(seq)))

\* m.contiguous().view(1, -1 ...): row-major flattening of the two leading
\* dimensions, kept under a leading dimension of size 1
View1(m) ==
    LET bsz == Len(m)
        tsz == Len(m[1])
    IN  << [k \in 1..(bsz * tsz) |-> m[((k - 1) \div tsz) + 1][((k - 1) % tsz) + 1]] >>

\* the whole-batch test with the ceiling taken one too low
IsSingle_OffByOne(bsz, tsz, M) == bsz * tsz < M - 1

\* bsz * tsz < self.softmax_batch
IsSingle(bsz, tsz, M) == bsz * tsz < M

\* a slice end one past the ceiling
SliceEnd_TooLong(start, M) == start + M + 1

\* e = s + self.softmax_batch
SliceEnd(start, M) == start + M

\* ------------------------------------------------------------ idle values
SoftmaxIdle ==
    /\ arg_softmax_batch = 0
    /\ softmax_batch = 0
    /\ dec_out = <<>>
    /\ target = <<>>
    /\ flat = <<>>
    /\ flat_tgt = <<>>
    /\ s = 0
    /\ batched = <<>>
    /\ gen_pc = "off"

WordStatIdle ==
    /\ ws = <<>>
    /\ ws_calls = <<>>
    /\ ws_str = <<>>

MainIdle ==
    /\ args = <<>>
    /\ models = 0
    /\ pc = "off"
    /\ exc = "none"
    /\ ex_i = 0
    /\ sample = <<>>
    /\ hypos = 0
    /\ next_id = 0
    /\ knn_dstore = FALSE
    /\ knn_queries = 0
    /\ forward_passes = 0
    /\ dstore_keys = <<>>
    /\ dstore_vals = <<>>
    /\ dstore_idx = 0
    /\ dstore_token_sample_map = <<>>
    /\ overflow_reported = FALSE
    /\ score_sum = 0
    /\ count = 0
    /\ word_stats = <<>>
    /\ prediction_save = <<>>
    /\ saved = {}

GenerateIdle ==
    /\ call_sample = <<>>
    /\ gen_sample = <<>>
    /\ orig_target = <<>>
    /\ n_models = 0
    /\ model_k = 0
    /\ kwargs_knn = FALSE
    /\ consumed = 0
    /\ norm_samples = <<>>
    /\ sc_pc = "off"

\* ------------------------------------------------------ batch_for_softmax
BatchForSoftmaxStart ==
    /\ gen_pc = "start"
    /\ LET first == dec_out[1]
           bsz == Len(first)
           tsz == Len(first[1])
       IN  IF IsSingle(bsz, tsz, softmax_batch)
           THEN /\ batched' = << [bd |-> dec_out, tgt |-> target, is_single |-> TRUE] >>
                /\ gen_pc' = "done"
                /\ UNCHANGED <<flat, flat_tgt, s>>
           ELSE /\ flat' = View1(first)
                /\ flat_tgt' = View1(target)
                /\ s' = 0
                /\ gen_pc' = "loop"
                /\ UNCHANGED batched
    /\ UNCHANGED <<arg_softmax_batch, softmax_batch, dec_out, target>>
    /\ UNCHANGED <<wordStatVars, mainVars, generateVars>>

BatchForSoftmaxChunk ==
    /\ gen_pc = "loop"
    /\ s < Len(flat[1])
    /\ LET e == SliceEnd(s, softmax_batch)
       IN  /\ batched' = Append(batched,
                    [bd |-> << <<PySlice(flat[1], s, e)>>, dec_out[2] >>,
                     tgt |-> <<PySlice(flat_tgt[1], s, e)>>,
                     is_single |-> FALSE])
           /\ s' = e
    /\ UNCHANGED <<arg_softmax_batch, softmax_batch, dec_out, target, flat,
                   flat_tgt, gen_pc>>
    /\ UNCHANGED <<wordStatVars, mainVars, generateVars>>

BatchForSoftmaxExhausted ==
    /\ gen_pc = "loop"
    /\ ~(s < Len(flat[1]))
    /\ gen_pc' = "done"
    /\ UNCHANGED <<arg_softmax_batch, softmax_batch, dec_out, target, flat,
                   flat_tgt, s, batched>>
    /\ UNCHANGED <<wordStatVars, mainVars, generateVars>>

\* the decoder output of a (bsz, tsz) batch: one logit vector per position,
\* named by its position, and the remaining elements of the tuple
DecoderOut(bsz, tsz) ==
    << [b \in 1..bsz |-> [t \in 1..tsz |-> <<b, t>>]], "rest" >>

SoftmaxInit ==
    /\ arg_softmax_batch \in 0..MaxSoftmaxBatch
    /\ softmax_batch = ScorerSoftmaxBatch(arg_softmax_batch)
    /\ \E bsz \in 1..MaxBsz, tsz \in 1..MaxTsz :
          /\ dec_out = DecoderOut(bsz, tsz)
          /\ target \in [1..bsz -> [1..tsz -> TokenIds]]
    /\ flat = << <<>> >>
    /\ flat_tgt = << <<>> >>
    /\ s = 0
    /\ batched = <<>>
    /\ gen_pc = "start"
    /\ WordStatIdle
    /\ MainIdle
    /\ GenerateIdle

SoftmaxNext ==
    \/ BatchForSoftmaxStart
    \/ BatchForSoftmaxChunk
    \/ BatchForSoftmaxExhausted

SpecSoftmax == SoftmaxInit /\ [][SoftmaxNext]_vars

\* ---------------------------------------------------------------- WordStat
\* an optional value: <<>> is None, <<v>> is v
None == <<>>
Some(v) == <<v>>

\* WordStat.__init__
WordStatNew(word, is_bpe) ==
    [word |-> word, is_bpe |-> is_bpe, log_prob |-> 0, next_word_prob |-> 0,
     count |-> 0, missing_next_words |-> 0]

\* add with "self.count += 1" inside the branch of a known next word
WordStatAdd_CountKnownOnly(w, log_prob, next_word_prob) ==
    LET w1 == IF next_word_prob # None
              THEN [w EXCEPT !.next_word_prob = @ + next_word_prob[1],
                             !.count = @ + 1]
              ELSE [w EXCEPT !.missing_next_words = @ + 1]
    IN  [w1 EXCEPT !.log_prob = @ + log_prob]

\* WordStat.add
WordStatAdd(w, log_prob, next_word_prob) ==
    LET w1 == IF next_word_prob # None
              THEN [w EXCEPT !.next_word_prob = @ + next_word_prob[1]]
              ELSE [w EXCEPT !.missing_next_words = @ + 1]
    IN  [w1 EXCEPT !.log_prob = @ + log_prob, !.count = @ + 1]

\* WordStat.__str__: the fields of the tab-separated line
WordStatStr(w) ==
    <<w.word, w.count, w.log_prob, w.is_bpe, w.next_word_prob,
      w.count - w.missing_next_words>>

AddCall ==
    /\ Len(ws_calls) < MaxAdds
    /\ \E log_prob \in LogProbs, next_word_prob \in {None} \cup {Some(v) : v \in LogProbs} :
          /\ ws' = WordStatAdd(ws, log_prob, next_word_prob)
          /\ ws_calls' = Append(ws_calls, <<log_prob, next_word_prob>>)
    /\ UNCHANGED ws_str
    /\ UNCHANGED <<softmaxVars, mainVars, generateVars>>

StrCall ==
    /\ ws_str' = WordStatStr(ws)
    /\ UNCHANGED <<ws, ws_calls>>
    /\ UNCHANGED <<softmaxVars, mainVars, generateVars>>

WordStatInit ==
    /\ \E is_bpe \in BOOLEAN : ws = WordStatNew(<<"a">>, is_bpe)
    /\ ws_calls = <<>>
    /\ ws_str = <<>>
    /\ SoftmaxIdle
    /\ MainIdle
    /\ GenerateIdle

WordStatNext ==
    \/ AddCall
    \/ StrCall

SpecWordStat == WordStatInit /\ [][WordStatNext]_vars

\* ------------------------------------------------------------------ main()
\* the dictionary: <s> (bos), a whole word, and a piece that ends with the
\* continuation marker
Bos == 0
Dict(i) == CASE i = 0 -> "<s>" [] i = 1 -> "a" [] i = 2 -> "b@@"
\* bpe_toks for remove_bpe = "@@" (lines 135-140)
BpeToks == {2}
\* w[:-bpe_len] on a word whose last piece ends with the marker
StripCont(w) == [w EXCEPT ![Len(w)] = "b"]

\* the reference tokens a hypothesis can carry (padding stripped)
HypoTokens(add_bos) ==
    { tk \in UNION { [1..n -> {Bos, 1, 2}] : n \in 1..MaxTokens } :
        /\ add_bos => tk[1] = Bos
        /\ \A i \in 1..Len(tk) : (tk[i] = Bos) => (add_bos /\ i = 1) }

\* rows of hypo['dstore_keys']: the positions from the start offset on, the
\* padding after the reference included; None (0 rows) unless the datastore
\* is being built
HypoKeyRows(tgt_len) ==
    IF args.save_knnlm_dstore THEN {tgt_len + pad : pad \in 0..MaxPad} ELSE {0}

RECURSIVE SumSeq(_)
SumSeq(q) == IF q = <<>> THEN 0 ELSE Head(q) + SumSeq(Tail(q))

\* len(x[:stop]) for a tensor of n rows (a negative stop counts from the end)
PyStopLen(n, stop) == IF stop >= 0 THEN Min(stop, n) ELSE Max(n + stop, 0)

\* len(a[lo:hi]) for an array of n rows and 0 <= lo <= hi
PyRangeLen(n, lo, hi) == Max(Min(hi, n) - Min(lo, n), 0)

\* numpy: rows of shape (r, d) can be assigned to a slice of shape (l, d)
Broadcastable(r, l) == r = l \/ r = 1

\* a[lo:lo+l] = rows of sample id (0-based lo)
WriteRows(a, lo, l, id) ==
    [r \in 1..Len(a) |-> IF lo < r /\ r <= lo + l THEN id ELSE a[r]]

\* dstore_idx + shape[0] > args.dstore_size
Exceeds(idx, rows, size) == idx + rows > size

\* actual_size = hypo['tokens'].shape[0]
ActualSize(key_rows, tok_len) == tok_len

\* lines 195-215: the datastore writer, for one hypothesis
DstoreWrite(sample_id, key_len, tok_len) ==
    LET size == args.dstore_size
        over == Exceeds(dstore_idx, key_len, size)
        shape0 == IF over THEN size - dstore_idx ELSE key_len
        key_rows == IF over THEN PyStopLen(key_len, shape0) ELSE key_len
        actual_size == ActualSize(key_rows, tok_len)
        map1 == (sample_id :> <<dstore_idx, actual_size + dstore_idx>>)
                    @@ dstore_token_sample_map
        lhs == PyRangeLen(size, dstore_idx, actual_size + dstore_idx)
        rhs_keys == PyStopLen(key_rows, actual_size)
        ok_keys == Broadcastable(rhs_keys, lhs)
        keys1 == IF ok_keys THEN WriteRows(dstore_keys, dstore_idx, lhs, sample_id)
                 ELSE dstore_keys
        ok_vals == ok_keys /\ Broadcastable(actual_size, lhs)
        vals1 == IF ok_vals THEN WriteRows(dstore_vals, dstore_idx, lhs, sample_id)
                 ELSE dstore_vals
    IN  [idx |-> IF ok_vals THEN dstore_idx + actual_size ELSE dstore_idx,
         map |-> map1, keys |-> keys1, vals |-> vals1,
         overflow |-> overflow_reported \/ over,
         raised |-> ~ok_vals]

\* lines 229-235: fold the score of each continuation piece into the next
\* position; i is the 0-based loop index, n is tgt_len - 1
RECURSIVE FoldBpe(_, _, _, _, _)
FoldBpe(tokens, ps, i, n, skipped) ==
    IF i >= n THEN [ps |-> ps, skipped |-> skipped, raised |-> FALSE]
    ELSE IF i + 1 > Len(tokens)
         THEN [ps |-> ps, skipped |-> skipped, raised |-> TRUE]
    ELSE IF tokens[i + 1] \in BpeToks
         THEN IF i + 2 > Len(ps)
              THEN [ps |-> ps, skipped |-> skipped + 1, raised |-> TRUE]
              ELSE FoldBpe(tokens, [ps EXCEPT ![i + 2] = @ + ps[i + 1], ![i + 1] = 0],
                           i + 1, n, skipped + 1)
         ELSE FoldBpe(tokens, ps, i + 1, n, skipped)

\* lines 260-266: the next non-zero positional score from 1-based ind on
RECURSIVE NextProb(_, _)
NextProb(ps, ind) ==
    IF ind > Len(ps) THEN None
    ELSE IF ps[ind] # 0 THEN Some(ps[ind])
    ELSE NextProb(ps, ind + 1)

\* lines 248-270: the per-word statistics of one hypothesis
RECURSIVE WordLoop(_, _, _, _, _, _, _)
WordLoop(tokens, ps, bpe, i, w, is_bpe, stats) ==
    IF i > Len(tokens) THEN stats
    ELSE LET w_ind == tokens[i]
             w1 == Append(w, Dict(w_ind))
         IN  IF bpe /\ w_ind \in BpeToks
             THEN WordLoop(tokens, ps, bpe, i + 1, StripCont(w1), TRUE, stats)
             ELSE LET st0 == IF w1 \in DOMAIN stats THEN stats
                             ELSE (w1 :> WordStatNew(w1, is_bpe)) @@ stats
                      st1 == [st0 EXCEPT ![w1] = WordStatAdd(@, ps[i], NextProb(ps, i + 1))]
                  IN  WordLoop(tokens, ps, bpe, i + 1, <<>>, FALSE, st1)

\* the ensemble check left out
KnnEnsembleUnsupported_Never(n) == FALSE

\* len(models) != 1 (sequence_scorer.py line 110)
KnnEnsembleUnsupported(n) == n # 1

\* sequence_scorer.py lines 70-159: the loop over the models of the ensemble
RECURSIVE GenerateModels(_, _, _)
GenerateModels(k, n, st) ==
    IF k > n THEN st
    ELSE LET st1 == [st EXCEPT !.forward = @ + 1]
         IN  IF args.knnlm
             THEN IF KnnEnsembleUnsupported(n)
                  THEN [st1 EXCEPT !.raised = TRUE]
                  ELSE GenerateModels(k + 1, n, [st1 EXCEPT !.queries = @ + 1])
             ELSE GenerateModels(k + 1, n, st1)

Raise(e) ==
    /\ pc' = "raised"
    /\ exc' = e

\* lines 128-175 with the conflict check placed after the provider and the
\* arrays have been set up
Setup_CheckLate ==
    /\ pc = "init"
    /\ IF args.remove_bpe = "sentencepiece"
       THEN /\ Raise("NotImplementedError")
            /\ UNCHANGED <<knn_dstore, dstore_keys, dstore_vals, next_id>>
       ELSE /\ knn_dstore' = args.knnlm
            /\ dstore_keys' = IF args.save_knnlm_dstore
                              THEN [r \in 1..args.dstore_size |-> 0] ELSE <<>>
            /\ dstore_vals' = IF args.save_knnlm_dstore
                              THEN [r \in 1..args.dstore_size |-> 0] ELSE <<>>
            /\ next_id' = 1
            /\ IF args.knnlm /\ args.save_knnlm_dstore
               THEN Raise("ValueError: Cannot use knnlm while trying to build the datastore!")
               ELSE pc' = "iterating" /\ UNCHANGED exc
    /\ UNCHANGED <<args, models, ex_i, sample, hypos, knn_queries, forward_passes,
                   dstore_idx, dstore_token_sample_map, overflow_reported,
                   score_sum, count, word_stats, prediction_save, saved>>
    /\ UNCHANGED <<softmaxVars, wordStatVars, generateVars>>

\* lines 128-175
Setup ==
    /\ pc = "init"
    /\ IF args.remove_bpe = "sentencepiece"
       THEN /\ Raise("NotImplementedError")
            /\ UNCHANGED <<knn_dstore, dstore_keys, dstore_vals, next_id>>
       ELSE IF args.knnlm /\ args.save_knnlm_dstore
       THEN /\ Raise("ValueError: Cannot use knnlm while trying to build the datastore!")
            /\ UNCHANGED <<knn_dstore, dstore_keys, dstore_vals, next_id>>
       ELSE /\ knn_dstore' = args.knnlm
            /\ dstore_keys' = IF args.save_knnlm_dstore
                              THEN [r \in 1..args.dstore_size |-> 0] ELSE <<>>
            /\ dstore_vals' = IF args.save_knnlm_dstore
                              THEN [r \in 1..args.dstore_size |-> 0] ELSE <<>>
            /\ next_id' = 1
            /\ pc' = "iterating"
            /\ UNCHANGED exc
    /\ UNCHANGED <<args, models, ex_i, sample, hypos, knn_queries, forward_passes,
                   dstore_idx, dstore_token_sample_map, overflow_reported,
                   score_sum, count, word_stats, prediction_save, saved>>
    /\ UNCHANGED <<softmaxVars, wordStatVars, generateVars>>

\* a skip that still counts the batch's tokens
SkipBatch_Counts ==
    /\ pc = "iterating"
    /\ ex_i < MaxBatches
    /\ ex_i' = ex_i + 1
    /\ sample' = [net_input |-> FALSE, bsz |-> 0]
    /\ count' = count + 1
    /\ UNCHANGED <<args, models, pc, exc, hypos, next_id, knn_dstore,
                   knn_queries, forward_passes, dstore_keys, dstore_vals,
                   dstore_idx, dstore_token_sample_map, overflow_reported,
                   score_sum, word_stats, prediction_save, saved>>
    /\ UNCHANGED <<softmaxVars, wordStatVars, generateVars>>

\* lines 176-178: a batch without net_input
SkipBatch ==
    /\ pc = "iterating"
    /\ ex_i < MaxBatches
    /\ ex_i' = ex_i + 1
    /\ sample' = [net_input |-> FALSE, bsz |-> 0]
    /\ UNCHANGED <<args, models, pc, exc, hypos, next_id, knn_dstore,
                   knn_queries, forward_passes, dstore_keys, dstore_vals,
                   dstore_idx, dstore_token_sample_map, overflow_reported,
                   score_sum, count, word_stats, prediction_save, saved>>
    /\ UNCHANGED <<softmaxVars, wordStatVars, generateVars>>

\* lines 176-189: a batch with net_input, scored by scorer.generate
ScoreBatch ==
    /\ pc = "iterating"
    /\ ex_i < MaxBatches
    /\ ex_i' = ex_i + 1
    /\ \E bsz \in 1..Min(MaxHypos, MaxSamples - (next_id - 1)) :
         LET st == GenerateModels(1, models,
                       [forward |-> forward_passes, queries |-> knn_queries,
                        raised |-> FALSE])
         IN  /\ forward_passes' = st.forward
             /\ knn_queries' = st.queries
             /\ IF st.raised
                THEN /\ Raise("ValueError: Only knn *log* probs are supported.")
                     /\ UNCHANGED hypos
                ELSE /\ hypos' = bsz
                     /\ pc' = "hypos"
                     /\ UNCHANGED exc
             /\ sample' = [net_input |-> TRUE, bsz |-> bsz]
    /\ UNCHANGED <<args, models, next_id, knn_dstore, dstore_keys, dstore_vals,
                   dstore_idx, dstore_token_sample_map, overflow_reported,
                   score_sum, count, word_stats, prediction_save, saved>>
    /\ UNCHANGED <<softmaxVars, wordStatVars, generateVars>>

\* lines 191-270: one hypothesis of the batch
ProcessHypo ==
    /\ pc = "hypos"
    /\ hypos > 0
    /\ \E tokens \in HypoTokens(args.add_bos_token) :
       \E pos_scores \in [1..Len(tokens) -> Scores], key_rows \in HypoKeyRows(Len(tokens)) :
         LET sample_id == next_id
             tgt_len == Len(tokens)
             d == IF args.save_knnlm_dstore
                  THEN DstoreWrite(sample_id, key_rows, tgt_len)
                  ELSE [idx |-> dstore_idx, map |-> dstore_token_sample_map,
                        keys |-> dstore_keys, vals |-> dstore_vals,
                        overflow |-> overflow_reported, raised |-> FALSE]
             toks == IF args.add_bos_token THEN Tail(tokens) ELSE tokens
             ps0 == IF args.add_bos_token THEN Tail(pos_scores) ELSE pos_scores
             bpe == args.remove_bpe # "none"
             f == IF bpe THEN FoldBpe(toks, ps0, 0, tgt_len - 1, 0)
                  ELSE [ps |-> ps0, skipped |-> 0, raised |-> FALSE]
         IN  /\ dstore_idx' = d.idx
             /\ dstore_token_sample_map' = d.map
             /\ dstore_keys' = d.keys
             /\ dstore_vals' = d.vals
             /\ overflow_reported' = d.overflow
             /\ IF d.raised
                THEN /\ Raise("ValueError: could not broadcast input array")
                     /\ UNCHANGED <<prediction_save, score_sum, count, word_stats,
                                    hypos, next_id>>
                ELSE /\ prediction_save' = Append(prediction_save, sample_id)
                     /\ IF f.raised
                        THEN /\ Raise("IndexError")
                             /\ UNCHANGED <<score_sum, count, word_stats, hypos, next_id>>
                        ELSE /\ score_sum' = score_sum + SumSeq(f.ps)
                             /\ count' = count + Len(f.ps) - f.skipped
                             /\ word_stats' =
                                  IF args.output_word_probs \/ args.output_word_stats
                                  THEN WordLoop(toks, f.ps, bpe, 1, <<>>, FALSE, word_stats)
                                  ELSE word_stats
                             /\ hypos' = hypos - 1
                             /\ next_id' = next_id + 1
                             /\ UNCHANGED <<pc, exc>>
    /\ UNCHANGED <<args, models, ex_i, sample, knn_dstore, knn_queries,
                   forward_passes, saved>>
    /\ UNCHANGED <<softmaxVars, wordStatVars, generateVars>>

\* lines 277-278: the batch's hypotheses are done
EndBatch ==
    /\ pc = "hypos"
    /\ hypos = 0
    /\ pc' = "iterating"
    /\ UNCHANGED <<args, models, exc, ex_i, sample, hypos, next_id, knn_dstore,
                   knn_queries, forward_passes, dstore_keys, dstore_vals,
                   dstore_idx, dstore_token_sample_map, overflow_reported,
                   score_sum, count, word_stats, prediction_save, saved>>
    /\ UNCHANGED <<softmaxVars, wordStatVars, generateVars>>

\* line 176: the iterator is exhausted
IteratorExhausted ==
    /\ pc = "iterating"
    /\ pc' = "finalizing"
    /\ UNCHANGED <<args, models, exc, ex_i, sample, hypos, next_id, knn_dstore,
                   knn_queries, forward_passes, dstore_keys, dstore_vals,
                   dstore_idx, dstore_token_sample_map, overflow_reported,
                   score_sum, count, word_stats, prediction_save, saved>>
    /\ UNCHANGED <<softmaxVars, wordStatVars, generateVars>>

\* lines 280-334
Finalize ==
    /\ pc = "finalizing"
    /\ IF args.save_knnlm_dstore /\ next_id = 1
       THEN \* line 281 reads shape, which no hypothesis has assigned
            /\ Raise("UnboundLocalError")
            /\ UNCHANGED saved
       ELSE IF prediction_save = <<>>
       THEN \* line 288: score_sum is the float 0. and count is 0
            /\ Raise("ZeroDivisionError")
            /\ saved' = saved \cup (IF args.save_knnlm_dstore THEN {"map"} ELSE {})
       ELSE /\ saved' = saved
                  \cup (IF args.save_knnlm_dstore THEN {"map"} ELSE {})
                  \cup {"prediction"}
                  \cup (IF args.knnlm THEN {"knn_caches"} ELSE {})
                  \cup (IF args.output_word_stats THEN {"word_stats"} ELSE {})
            /\ pc' = "done"
            /\ UNCHANGED exc
    /\ UNCHANGED <<args, models, ex_i, sample, hypos, next_id, knn_dstore,
                   knn_queries, forward_passes, dstore_keys, dstore_vals,
                   dstore_idx, dstore_token_sample_map, overflow_reported,
                   score_sum, count, word_stats, prediction_save>>
    /\ UNCHANGED <<softmaxVars, wordStatVars, generateVars>>

\* the arguments main() reads; dstore_size is read only in datastore-building
\* mode (lines 162-171 and 198-200) and keeps its default otherwise
ParsedArgs ==
    { a \in [knnlm : BOOLEAN, save_knnlm_dstore : BOOLEAN,
             dstore_size : 1..MaxDstoreSize, output_word_probs : BOOLEAN,
             output_word_stats : BOOLEAN,
             remove_bpe : {"none", "@@", "sentencepiece"},
             add_bos_token : BOOLEAN] :
        ~a.save_knnlm_dstore => a.dstore_size = 1 }

Init ==
    /\ args \in ParsedArgs
    /\ models \in 1..MaxModels
    /\ pc = "init"
    /\ exc = "none"
    /\ ex_i = 0
    /\ sample = <<>>
    /\ hypos = 0
    /\ next_id = 0
    /\ knn_dstore = FALSE
    /\ knn_queries = 0
    /\ forward_passes = 0
    /\ dstore_keys = <<>>
    /\ dstore_vals = <<>>
    /\ dstore_idx = 0
    /\ dstore_token_sample_map = <<>>
    /\ overflow_reported = FALSE
    /\ score_sum = 0
    /\ count = 0
    /\ word_stats = <<>>
    /\ prediction_save = <<>>
    /\ saved = {}
    /\ SoftmaxIdle
    /\ WordStatIdle
    /\ GenerateIdle

Next ==
    \/ Setup
    \/ SkipBatch
    \/ ScoreBatch
    \/ ProcessHypo
    \/ EndBatch
    \/ IteratorExhausted
    \/ Finalize

Spec == Init /\ [][Next]_vars

\* ------------------------------------------------- SequenceScorer.generate
\* the restore that leaves the chunk's target in place
RestoredTarget_KeepChunk(orig, tgt) == tgt

\* line 98: sample['target'] = orig_target
RestoredTarget(orig, tgt) == orig

\* lines 32 and 65: orig_target = sample['target']
GenerateEnter ==
    /\ sc_pc = "enter"
    /\ orig_target' = gen_sample.target
    /\ model_k' = 1
    /\ sc_pc' = "model"
    /\ UNCHANGED <<call_sample, gen_sample, n_models, kwargs_knn, consumed,
                   norm_samples>>
    /\ UNCHANGED <<softmaxVars, wordStatVars, mainVars>>

\* lines 70-78: the next model's forward pass; batched is a new generator
\* over its decoder output and orig_target
ModelForward ==
    /\ sc_pc = "model"
    /\ model_k <= n_models
    /\ dec_out' = DecoderOut(Len(orig_target), Len(orig_target[1]))
    /\ target' = orig_target
    /\ flat' = << <<>> >>
    /\ flat_tgt' = << <<>> >>
    /\ s' = 0
    /\ batched' = <<>>
    /\ gen_pc' = "start"
    /\ consumed' = 0
    /\ sc_pc' = "for"
    /\ UNCHANGED <<arg_softmax_batch, softmax_batch>>
    /\ UNCHANGED <<call_sample, gen_sample, orig_target, n_models, model_k,
                   kwargs_knn, norm_samples>>
    /\ UNCHANGED <<wordStatVars, mainVars>>

\* line 79: the for loop asks the generator for its next triple
ForAwaitsNext == sc_pc = "for" /\ consumed = Len(batched)

\* lines 79-80: the loop takes the triple and sets sample['target'] = tgt
SwapTarget ==
    /\ sc_pc = "for"
    /\ consumed < Len(batched)
    /\ gen_sample' = [gen_sample EXCEPT !.target = batched[consumed + 1].tgt]
    /\ sc_pc' = "normalize"
    /\ UNCHANGED <<call_sample, orig_target, n_models, model_k, kwargs_knn,
                   consumed, norm_samples>>
    /\ UNCHANGED <<softmaxVars, wordStatVars, mainVars>>

\* line 81: model.get_normalized_probs(bd, ..., sample=sample)
Normalize ==
    /\ sc_pc = "normalize"
    /\ norm_samples' = Append(norm_samples, gen_sample)
    /\ sc_pc' = "restore"
    /\ UNCHANGED <<call_sample, gen_sample, orig_target, n_models, model_k,
                   kwargs_knn, consumed>>
    /\ UNCHANGED <<softmaxVars, wordStatVars, mainVars>>

\* lines 83-98: the probabilities are gathered and the target is put back
RestoreTarget ==
    /\ sc_pc = "restore"
    /\ gen_sample' = [gen_sample EXCEPT
                         !.target = RestoredTarget(orig_target, batched[consumed + 1].tgt)]
    /\ consumed' = consumed + 1
    /\ sc_pc' = "for"
    /\ UNCHANGED <<call_sample, orig_target, n_models, model_k, kwargs_knn,
                   norm_samples>>
    /\ UNCHANGED <<softmaxVars, wordStatVars, mainVars>>

\* lines 99-159: the generator is exhausted; the retrieval branch raises for
\* an ensemble, otherwise the loop goes on to the next model
EndModel ==
    /\ ForAwaitsNext
    /\ gen_pc = "done"
    /\ IF kwargs_knn /\ KnnEnsembleUnsupported(n_models)
       THEN sc_pc' = "raised" /\ UNCHANGED model_k
       ELSE sc_pc' = "model" /\ model_k' = model_k + 1
    /\ UNCHANGED <<call_sample, gen_sample, orig_target, n_models, kwargs_knn,
                   consumed, norm_samples>>
    /\ UNCHANGED <<softmaxVars, wordStatVars, mainVars>>

\* lines 160-210: the hypotheses are built and returned
GenerateReturn ==
    /\ sc_pc = "model"
    /\ model_k > n_models
    /\ sc_pc' = "returned"
    /\ UNCHANGED <<call_sample, gen_sample, orig_target, n_models, model_k,
                   kwargs_knn, consumed, norm_samples>>
    /\ UNCHANGED <<softmaxVars, wordStatVars, mainVars>>

GenerateInit ==
    /\ arg_softmax_batch \in 0..MaxSoftmaxBatch
    /\ softmax_batch = ScorerSoftmaxBatch(arg_softmax_batch)
    /\ \E bsz \in 1..MaxBsz, tsz \in 1..MaxGenTsz :
          \E tgt \in [1..bsz -> [1..tsz -> TokenIds]] :
             call_sample = [net_input |-> "net_input", target |-> tgt, id |-> "id"]
    /\ gen_sample = call_sample
    /\ orig_target = <<>>
    /\ n_models \in 1..MaxModels
    /\ model_k = 0
    /\ kwargs_knn \in BOOLEAN
    /\ consumed = 0
    /\ norm_samples = <<>>
    /\ sc_pc = "enter"
    /\ dec_out = <<>>
    /\ target = <<>>
    /\ flat = <<>>
    /\ flat_tgt = <<>>
    /\ s = 0
    /\ batched = <<>>
    /\ gen_pc = "off"
    /\ WordStatIdle
    /\ MainIdle

GenerateNext ==
    \/ GenerateEnter
    \/ ModelForward
    \/ (ForAwaitsNext /\ BatchForSoftmaxStart)
    \/ (ForAwaitsNext /\ BatchForSoftmaxChunk)
    \/ (ForAwaitsNext /\ BatchForSoftmaxExhausted)
    \/ SwapTarget
    \/ Normalize
    \/ RestoreTarget
    \/ EndModel
    \/ GenerateReturn

SpecGenerate == GenerateInit /\ [][GenerateNext]_vars

\* ================================================================== claims
ExcConflict == "ValueError: Cannot use knnlm while trying to build the datastore!"
ExcEnsemble == "ValueError: Only knn *log* probs are supported."
ExcBroadcast == "ValueError: could not broadcast input array"

InMain == pc # "off"
Saving == InMain /\ args.save_knnlm_dstore

\* rows of array a that hold sample id
RowsOf(a, id) == Cardinality({r \in 1..Len(a) : a[r] = id})
\* rows of array a that have been written
RowsWritten(a) == Cardinality({r \in 1..Len(a) : a[r] # 0})
\* sample ids the mapping records
Recorded == DOMAIN dstore_token_sample_map
RangeStart(id) == dstore_token_sample_map[id][1]
RangeEnd(id) == dstore_token_sample_map[id][2]
\* the sample recorded last (ids are handed out in processing order)
LastRecorded == CHOOSE id \in Recorded : \A o \in Recorded : o <= id
\* rows handed to the writer so far: each recorded range spans the rows of
\* its sample
RECURSIVE RowsFedUpTo(_)
RowsFedUpTo(id) ==
    IF id = 0 THEN 0
    ELSE (IF id \in Recorded THEN RangeEnd(id) - RangeStart(id) ELSE 0)
         + RowsFedUpTo(id - 1)
RowsFed == IF Recorded = {} THEN 0 ELSE RowsFedUpTo(LastRecorded)

\* C1: in datastore-building mode the write cursor dstore_idx is at most
\* args.dstore_size in every reachable state.
C1_CursorWithinCapacity ==
    Saving => dstore_idx <= args.dstore_size

\* C2: when the samples fed to the writer total more rows than the capacity,
\* at the end of the run exactly capacity rows of the key and value arrays
\* have been written, the overflow has been reported, the last recorded range
\* ends at capacity and no recorded range end exceeds capacity.
C2_OverflowWritesExactlyCapacity ==
    (Saving /\ pc \in {"done", "raised"} /\ RowsFed > args.dstore_size) =>
        /\ RowsWritten(dstore_keys) = args.dstore_size
        /\ RowsWritten(dstore_vals) = args.dstore_size
        /\ overflow_reported
        /\ RangeEnd(LastRecorded) = args.dstore_size
        /\ \A id \in Recorded : RangeEnd(id) <= args.dstore_size

\* C3: the cursor starts at 0; every recorded range is
\* [cursor_before, cursor_before + written) with written the rows actually
\* stored for the sample; the cursor after a write is the range end; the
\* ranges of successive samples are contiguous and do not overlap.
C3_RangesMatchRowsStored ==
    Saving =>
        /\ (pc = "init" => dstore_idx = 0)
        /\ \A id \in Recorded :
              /\ RangeStart(id) = (IF id = 1 THEN 0 ELSE RangeEnd(id - 1))
              /\ RangeEnd(id) - RangeStart(id) = RowsOf(dstore_keys, id)
              /\ RangeEnd(id) - RangeStart(id) = RowsOf(dstore_vals, id)
        /\ (Recorded # {} => dstore_idx = RangeEnd(LastRecorded))

\* C4: a datastore write that would exceed the capacity does not end the
\* run: the write is truncated, the overflow reported, and the evaluation
\* goes on to the later hypotheses and batches and to finalization.
C4_OverflowNonFatal ==
    (Saving /\ overflow_reported) => exc # ExcBroadcast

\* ------------------------------------------------------------ splitter
SplitBsz == Len(dec_out[1])
SplitTsz == Len(dec_out[1][1])
SplitN == SplitBsz * SplitTsz
\* the (batch, time) position of the k-th element in row-major order
PosOf(k) == <<((k - 1) \div SplitTsz) + 1, ((k - 1) % SplitTsz) + 1>>

RECURSIVE ConcatTgt(_)
ConcatTgt(ys) == IF ys = <<>> THEN <<>> ELSE Head(ys).tgt[1] \o ConcatTgt(Tail(ys))
RECURSIVE ConcatBd(_)
ConcatBd(ys) == IF ys = <<>> THEN <<>> ELSE Head(ys).bd[1][1] \o ConcatBd(Tail(ys))

\* C5: when bsz*tsz >= M, batch_for_softmax yields exactly ceil(bsz*tsz / M)
\* chunks, each flagged as a sub-chunk and of length 1..M (only the last may
\* be shorter than M); the chunks are contiguous slices without overlap or
\* gap, and the chunk targets concatenated in order are the target flattened
\* over (batch, time).
C5_ChunksPartitionTarget ==
    (gen_pc = "done" /\ SplitN >= softmax_batch) =>
        LET M == softmax_batch
            n == Len(batched)
        IN  /\ n = (SplitN + M - 1) \div M
            /\ \A i \in 1..n :
                  /\ ~batched[i].is_single
                  /\ Len(batched[i].tgt) = 1
                  /\ Len(batched[i].bd[1]) = 1
                  /\ Len(batched[i].tgt[1]) \in 1..M
                  /\ Len(batched[i].bd[1][1]) = Len(batched[i].tgt[1])
                  /\ (i < n => Len(batched[i].tgt[1]) = M)
                  /\ batched[i].bd[2] = dec_out[2]
            /\ ConcatBd(batched) = [k \in 1..SplitN |-> PosOf(k)]
            /\ ConcatTgt(batched) =
                  [k \in 1..SplitN |-> target[PosOf(k)[1]][PosOf(k)[2]]]

C5_Witness ==
    /\ gen_pc = "done"
    /\ SplitN >= softmax_batch
    /\ Len(batched) >= 2
    /\ Len(batched[Len(batched)].tgt[1]) < softmax_batch

\* C6: when bsz*tsz < M (M being sys.maxsize when no ceiling is configured),
\* batch_for_softmax yields exactly one triple: the decoder output unchanged,
\* the target unchanged and the whole-batch flag true.
C6_WholeBatchYieldedOnce ==
    (gen_pc # "off" /\ (SplitN < softmax_batch \/ arg_softmax_batch = 0)) =>
        /\ gen_pc \in {"start", "done"}
        /\ (gen_pc = "start" => batched = <<>>)
        /\ (gen_pc = "done" =>
              /\ Len(batched) = 1
              /\ batched[1].is_single
              /\ batched[1].bd = dec_out
              /\ batched[1].tgt = target)

C6_Witness ==
    /\ gen_pc = "done"
    /\ arg_softmax_batch # 0
    /\ SplitN = softmax_batch - 1
    /\ SplitBsz > 1
    /\ Len(batched) = 1

\* ------------------------------------------------------------- WordStat
KnownCalls(k) == {i \in 1..k : ws_calls[i][2] # None}
RECURSIVE SumLogProb(_)
SumLogProb(k) == IF k = 0 THEN 0 ELSE ws_calls[k][1] + SumLogProb(k - 1)
RECURSIVE SumNextProb(_)
SumNextProb(k) ==
    IF k = 0 THEN 0
    ELSE (IF ws_calls[k][2] # None THEN ws_calls[k][2][1] ELSE 0) + SumNextProb(k - 1)

\* C10: after any sequence of add calls on one WordStat, count is the number
\* of calls, missing_next_words the number of calls with next_word_prob None,
\* log_prob the sum of the log-probabilities passed and next_word_prob the
\* sum of the known next-word values; 0 <= missing_next_words <= count, and
\* the line __str__ reports ends with count - missing_next_words.
C10_WordStatCounts ==
    (ws # <<>>) =>
        LET n == Len(ws_calls)
        IN  /\ ws.count = n
            /\ ws.missing_next_words = n - Cardinality(KnownCalls(n))
            /\ ws.log_prob = SumLogProb(n)
            /\ ws.next_word_prob = SumNextProb(n)
            /\ 0 <= ws.missing_next_words
            /\ ws.missing_next_words <= ws.count
            /\ (ws_str # <<>> =>
                  \E k \in 0..n :
                     /\ ws_str[2] = k
                     /\ ws_str[3] = SumLogProb(k)
                     /\ ws_str[5] = SumNextProb(k)
                     /\ ws_str[6] = Cardinality(KnownCalls(k)))

C10_Witness ==
    /\ ws # <<>>
    /\ Len(ws_calls) = 3
    /\ Cardinality(KnownCalls(3)) = 2
    /\ ws.count = 3
    /\ ws.missing_next_words = 1
    /\ ws_str # <<>>
    /\ ws_str[2] = 3

\* ------------------------------------------------- configuration errors
AccumulatorsUntouched ==
    /\ score_sum = 0
    /\ count = 0
    /\ DOMAIN word_stats = {}
    /\ prediction_save = <<>>

\* C7 as stated: with knnlm and more than one model the run fails with the
\* unsupported-configuration error before processing starts: no forward
\* pass, no retrieval query and no accumulator change precede the error.
C7_EnsembleErrorBeforeProcessing ==
    (InMain /\ args.knnlm /\ models > 1) =>
        /\ forward_passes = 0
        /\ knn_queries = 0
        /\ AccumulatorsUntouched
        /\ pc # "done"

\* C7 amended: with knnlm and more than one model the scorer raises the
\* unsupported-configuration error while the first batch that has net_input
\* is scored, after the first model's forward pass and before any retrieval
\* query and any accumulator change; no hypothesis is ever processed and the
\* run never completes.
C7_EnsembleErrorBeforeQuery ==
    (InMain /\ args.knnlm /\ models > 1) =>
        /\ knn_queries = 0
        /\ AccumulatorsUntouched
        /\ forward_passes <= 1
        /\ (forward_passes = 1 <=> exc = ExcEnsemble)
        /\ (exc = ExcEnsemble => pc = "raised" /\ sample.net_input)
        /\ pc \notin {"hypos", "done"}

C7_Witness ==
    /\ InMain
    /\ args.knnlm
    /\ models > 1
    /\ pc = "raised"
    /\ exc = ExcEnsemble
    /\ forward_passes = 1
    /\ ex_i = 2

\* C8: with knnlm and save_knnlm_dstore both requested the run fails before
\* processing starts: before the retrieval provider is constructed, before
\* the datastore arrays are allocated, before any batch is scored, and
\* without persisting any artifact.
C8_ConflictFailsBeforeSetup ==
    (InMain /\ args.knnlm /\ args.save_knnlm_dstore) =>
        /\ pc \in {"init", "raised"}
        /\ (pc = "raised" => exc \in {ExcConflict, "NotImplementedError"})
        /\ (args.remove_bpe # "sentencepiece" /\ pc = "raised" => exc = ExcConflict)
        /\ ~knn_dstore
        /\ dstore_keys = <<>>
        /\ dstore_vals = <<>>
        /\ ex_i = 0
        /\ forward_passes = 0
        /\ knn_queries = 0
        /\ AccumulatorsUntouched
        /\ DOMAIN dstore_token_sample_map = {}
        /\ saved = {}

C8_Witness ==
    /\ InMain
    /\ args.knnlm
    /\ args.save_knnlm_dstore
    /\ pc = "raised"
    /\ exc = ExcConflict

\* C9: a batch without net_input is skipped: the scorer is not invoked for
\* it, the score sum, token count, word statistics, datastore cursor,
\* sample-to-range mapping and saved predictions are unchanged by it, and the
\* loop goes on to the following batches.
C9_SkippedBatchChangesNothing ==
    [][ (InMain /\ ex_i' = ex_i + 1 /\ ~sample'.net_input) =>
           /\ pc' = "iterating"
           /\ exc' = "none"
           /\ UNCHANGED <<forward_passes, knn_queries, score_sum, count,
                          word_stats, dstore_idx, dstore_keys, dstore_vals,
                          dstore_token_sample_map, prediction_save, hypos,
                          next_id, saved>> ]_vars

\* the first batch was skipped, the second scored and a hypothesis of it
\* accumulated
C9_Witness ==
    /\ InMain
    /\ ex_i = 2
    /\ sample.net_input
    /\ forward_passes = models
    /\ Len(prediction_save) >= 1
    /\ count > 0

\* ------------------------------------------------------ the driver's run
\* setup found no configuration error (lines 131-149)
SetupPassed == InMain /\ pc # "init" /\ exc \notin {ExcConflict, "NotImplementedError"}

\* C11: without a configuration conflict, and for every sequence of batches
\* (those in which every batch is skipped included), the driver goes through
\* init, iterating, finalizing, done in this order, takes the batches in
\* iterator order, and finalization computes the average negative
\* log-likelihood and the perplexity and reaches done.  Failures while one
\* batch is scored are the matter of other properties and are let through
\* here; what is required is the order of the states, the order of the
\* batches, and that finalization always completes.
C11_DriverReachesDone ==
    [][ /\ (pc = "init" /\ SetupPassed' => pc' = "iterating")
        /\ (pc = "iterating" => pc' \in {"iterating", "hypos", "finalizing", "raised"})
        /\ (pc = "hypos" => pc' \in {"hypos", "iterating", "raised"})
        /\ (pc = "finalizing" => pc' = "done" /\ exc' = "none")
        /\ (pc \in {"done", "raised"} => pc' = pc)
        /\ ex_i' \in {ex_i, ex_i + 1} ]_vars

\* C12: with a continuation marker configured, folding never indexes past
\* the last position of a hypothesis, with or without the BOS token stripped
\* and whatever token ends the sequence: no hypothesis ends the run with an
\* IndexError.
C12_FoldingStaysInBounds ==
    (InMain /\ args.remove_bpe = "@@") => exc # "IndexError"

\* ------------------------------------------------ the sample's target
InGenerate == sc_pc # "off"
\* the loop is between the swap of line 80 and the restore of line 98
Swapped == sc_pc \in {"normalize", "restore"}
\* chunks the generator yields for one model
ChunksPerModel ==
    LET n == Len(call_sample.target) * Len(call_sample.target[1])
    IN  IF n < softmax_batch THEN 1 ELSE (n + softmax_batch - 1) \div softmax_batch

\* C13: the sample's target is swapped only temporarily.  During each
\* normalization call sample['target'] is that chunk's target; after every
\* chunk it is the original target again; whenever generate has returned
\* (whole-batch or chunked path, any number of models and chunks) it is the
\* original target, and no other field of the sample ever changes.
C13_TargetSwapIsTemporary ==
    InGenerate =>
        /\ DOMAIN gen_sample = DOMAIN call_sample
        /\ gen_sample.net_input = call_sample.net_input
        /\ gen_sample.id = call_sample.id
        /\ (Swapped => gen_sample.target = batched[consumed + 1].tgt)
        /\ (~Swapped => gen_sample.target = call_sample.target)
        /\ \A i \in 1..Len(norm_samples) :
              /\ norm_samples[i].net_input = call_sample.net_input
              /\ norm_samples[i].id = call_sample.id
        /\ (sc_pc = "restore" => norm_samples[Len(norm_samples)] = gen_sample)
        /\ (sc_pc = "returned" =>
              /\ gen_sample = call_sample
              /\ Len(norm_samples) = n_models * ChunksPerModel)

\* generate has returned after two models went through the chunked path,
\* two chunks each, the second shorter than the first
C13_Witness ==
    /\ sc_pc = "returned"
    /\ n_models = 2
    /\ ~batched[1].is_single
    /\ Len(batched) = 2
    /\ Len(batched[2].tgt[1]) < softmax_batch
    /\ Len(norm_samples) = 4
    /\ norm_samples[4].target = batched[2].tgt
    /\ norm_samples[4].target # call_sample.target
    /\ gen_sample.target = call_sample.target

====
